---------------------------- MODULE Spec2Model ----------------------------
(***************************************************************************)
(* Model of the Envelope class of modules/xen_utilities.h: a breakpoint    *)
(* curve (std::vector<EnvelopePoint> m_points) with its mutators and its   *)
(* two evaluators, getValueAtTime and applyToBuffer; and of the play       *)
(* position of the FilePlayerPlugin of InternalFilters.cpp, which the      *)
(* audio thread advances and the message thread reads.                     *)
(*                                                                         *)
(* Numbers.  A C++ double is modelled as an extended rational <<n, d>> in  *)
(* lowest terms with d >= 0: d > 0 is the finite value n/d, <<1,0>> and    *)
(* <<-1,0>> are +inf and -inf, <<0,0>> is NaN.  The arithmetic follows the *)
(* IEEE rules for the special values (x/0, 0/0, inf-inf, 0*inf, ordered    *)
(* comparisons false on NaN) and is exact on finite values: rounding and   *)
(* overflow of finite results are not modelled.                            *)
(*                                                                         *)
(* Units.  Times are counted in units of 5e-6, so that the source's        *)
(* 0.00001 is EPS = 2 units and its 0.1 is Tenth = 20000 units; times one  *)
(* unit apart are closer than 1e-5 without being equal.                    *)
(***************************************************************************)
EXTENDS Integers, Sequences, FiniteSets, TLC

VARIABLES m_points, last, memo, m_reader, m_filepos, m_looppoints, m_cs, audio, ui

vars == <<m_points, last, memo, m_reader, m_filepos, m_looppoints, m_cs, audio, ui>>

\* ------------------------------------------------------------- bounds
\* Breakpoint times are 0, 1 and EPS * k for k in 1..MaxSeg; values are
\* 0..MaxVal; the vector holds at most MaxPoints points (MaxFillPoints in
\* the specifications of applyToBuffer and of the repeated queries); a
\* buffer holds at most MaxCount samples.  An audio file has at most
\* MaxLength samples and an audio block at most MaxBlock.
MaxSeg == 2
MaxVal == 1
MaxPoints == 3
MaxFillPoints == 2
MaxCount == 3
MaxLength == 3
MaxBlock == 2

\* ------------------------------------------------ program constants
EPS == 2
Tenth == 20000

\* ------------------------------------------------------------ doubles
Abs(n) == IF n < 0 THEN -n ELSE n

Sign(n) == IF n < 0 THEN -1 ELSE IF n > 0 THEN 1 ELSE 0

RECURSIVE Gcd(_, _)
Gcd(a, b) == IF b = 0 THEN a ELSE Gcd(b, a % b)

Norm(n, d) ==
    IF d = 0 THEN <<Sign(n), 0>>
    ELSE LET g == Gcd(Abs(n), Abs(d))
         IN  <<(Sign(d) * n) \div g, Abs(d) \div g>>

D(n) == <<n, 1>>

NaN == <<0, 0>>

IsNaN(a) == a = NaN

IsFinite(a) == a[2] > 0

RNeg(a) == <<-a[1], a[2]>>

RAdd(a, b) ==
    IF IsNaN(a) \/ IsNaN(b) THEN NaN
    ELSE IF ~IsFinite(a) /\ ~IsFinite(b) THEN (IF a = b THEN a ELSE NaN)
    ELSE IF ~IsFinite(a) THEN a
    ELSE IF ~IsFinite(b) THEN b
    ELSE Norm(a[1] * b[2] + b[1] * a[2], a[2] * b[2])

RSub(a, b) == RAdd(a, RNeg(b))

RMul(a, b) ==
    IF IsNaN(a) \/ IsNaN(b) THEN NaN
    ELSE IF ~IsFinite(a) \/ ~IsFinite(b)
         THEN <<Sign(a[1]) * Sign(b[1]), 0>>
    ELSE Norm(a[1] * b[1], a[2] * b[2])

RDiv(a, b) ==
    IF IsNaN(a) \/ IsNaN(b) THEN NaN
    ELSE IF ~IsFinite(a) /\ ~IsFinite(b) THEN NaN
    ELSE IF ~IsFinite(a) THEN <<a[1] * (IF b[1] < 0 THEN -1 ELSE 1), 0>>
    ELSE IF ~IsFinite(b) THEN D(0)
    ELSE Norm(a[1] * b[2], a[2] * b[1])

RLess(a, b) ==
    IF IsNaN(a) \/ IsNaN(b) THEN FALSE
    ELSE IF ~IsFinite(a) \/ ~IsFinite(b)
         THEN (IF ~IsFinite(a) /\ ~IsFinite(b) THEN a[1] < b[1]
               ELSE IF ~IsFinite(a) THEN a[1] < 0
               ELSE b[1] > 0)
    ELSE a[1] * b[2] < b[1] * a[2]

RLeq(a, b) == ~IsNaN(a) /\ ~IsNaN(b) /\ ~RLess(b, a)

RGeq(a, b) == RLeq(b, a)

\* ------------------------------------------------------------- points
EnvelopePoint(x, y) == [x |-> x, y |-> y]

Times == {0, 1} \cup {EPS * k : k \in 1..MaxSeg}

Vals == 0..MaxVal

Points == {EnvelopePoint(D(t), D(v)) : t \in Times, v \in Vals}

RECURSIVE PointLists(_)
PointLists(n) ==
    IF n = 0 THEN {<<>>}
    ELSE LET shorter == PointLists(n - 1)
         IN  shorter \cup {Append(s, p) : s \in {q \in shorter : Len(q) = n - 1}, p \in Points}


\* Variant: a sort that places an element in front of its equals.
RECURSIVE InsertBeforeEqual(_, _)
InsertBeforeEqual(s, p) ==
    IF s = <<>> THEN <<p>>
    ELSE IF RLeq(p.x, Head(s).x) THEN <<p>> \o s
    ELSE <<Head(s)>> \o InsertBeforeEqual(Tail(s), p)

\* ----------------------------------------------------------- Envelope
\* std::stable_sort with the comparator a.getX() < b.getX(): each element is
\* placed behind every element already placed that does not compare greater.
RECURSIVE InsertSorted(_, _)
InsertSorted(s, p) ==
    IF s = <<>> THEN <<p>>
    ELSE IF RLess(p.x, Head(s).x) THEN <<p>> \o s
    ELSE <<Head(s)>> \o InsertSorted(Tail(s), p)

RECURSIVE StableSortFrom(_, _)
StableSortFrom(done, rest) ==
    IF rest = <<>> THEN done
    ELSE StableSortFrom(InsertSorted(done, Head(rest)), Tail(rest))

\* Variant: sortPoints that leaves the vector as it is.
sortPointsOff(pts) == pts

sortPoints(pts) == StableSortFrom(<<>>, pts)

\* Envelope(std::initializer_list<EnvelopePoint>)
construct(pts) == sortPoints(pts)

clearAllPoints(pts) == <<>>

\* Variant: the new points go in front of the stored ones before the sort.
addPointsInFront(pts, list) == sortPoints(list \o pts)

addPoint(pts, pt, nosort) ==
    LET pushed == Append(pts, pt)
    IN  IF nosort = FALSE THEN sortPoints(pushed) ELSE pushed

addPoints(pts, list) == sortPoints(pts \o list)

\* m_points.erase(m_points.begin() + index)
EraseAt(pts, index) ==
    [k \in 1..(Len(pts) - 1) |-> IF k <= index THEN pts[k] ELSE pts[k + 1]]

\* Variant: the index test written index > 0.
removePointFromOne(pts, index) ==
    IF index > 0 /\ index < Len(pts) THEN EraseAt(pts, index) ELSE pts

removePoint(pts, index) ==
    IF index >= 0 /\ index < Len(pts) THEN EraseAt(pts, index) ELSE pts

\* erase(c, f): c.erase(std::remove_if(begin, end, f), end). The predicate f
\* is given as the set of the elements of c it is true of.
Elements(c) == {c[k] : k \in 1..Len(c)}

erase(c, f) == SelectSeq(c, LAMBDA e : e \notin f)

\* Variant: the upper bound of the range excluded.
InTimeRangeHalfOpen(a, t0, t1) == RGeq(a.x, t0) /\ RLess(a.x, t1)

InTimeRange(a, t0, t1) == RGeq(a.x, t0) /\ RLeq(a.x, t1)

removePointsInTimeRange(pts, t0, t1) ==
    erase(pts, {a \in Elements(pts) : InTimeRange(a, t0, t1)})

\* struct ValueBetween, the predicate object the header supplies
ValueBetween(pt, a, b) == RGeq(pt.y, a) /\ RLess(pt.y, b)

removePointsConditionally(pts, a, b) ==
    erase(pts, {e \in Elements(pts) : ValueBetween(e, a, b)})

scaleTimes(pts, sx) ==
    [k \in 1..Len(pts) |-> EnvelopePoint(RMul(pts[k].x, sx), pts[k].y)]

scaleAndShiftValues(pts, sy, shifty) ==
    [k \in 1..Len(pts) |-> EnvelopePoint(pts[k].x, RAdd(RMul(sy, pts[k].y), shifty))]

\* m_points.front() / m_points.back() / m_points[index] (index from 0)
front(pts) == pts[1]

back(pts) == pts[Len(pts)]

at(pts, index) == pts[index + 1]

\* Variant: no anchor 0.1 in front of the first point.
getPointSafeNoAnchor(pts, index) ==
    IF index < 0
    THEN EnvelopePoint(front(pts).x, front(pts).y)
    ELSE IF index >= Len(pts)
    THEN EnvelopePoint(back(pts).x, back(pts).y)
    ELSE at(pts, index)

getPointSafe(pts, index) ==
    IF index < 0
    THEN EnvelopePoint(RSub(front(pts).x, D(Tenth)), front(pts).y)
    ELSE IF index >= Len(pts)
    THEN EnvelopePoint(back(pts).x, back(pts).y)
    ELSE at(pts, index)

\* juce::jmap (sourceValue, sourceMin, sourceMax, targetMin, targetMax)
jmap(v, smin, smax, tmin, tmax) ==
    RAdd(tmin, RDiv(RMul(RSub(tmax, tmin), RSub(v, smin)), RSub(smax, smin)))

\* juce::jlimit (lower, upper, value)
jlimit(lo, hi, v) == IF RLess(v, lo) THEN lo ELSE IF RLess(hi, v) THEN hi ELSE v

\* juce::Range<double>: the pair (start, end); isEmpty() is start == end,
\* and a default-constructed Range is (0, 0).
Range(lo, hi) == [lo |-> lo, hi |-> hi]

NoRange == Range(D(0), D(0))

RangeIsEmpty(r) == r.lo = r.hi

\* std::lower_bound over [first, first + count) with a.getX() < b.getX():
\* the bisection of the library, returning a position counted from 0.
RECURSIVE LowerBoundFrom(_, _, _, _)
LowerBoundFrom(pts, first, count, t) ==
    IF count <= 0 THEN first
    ELSE LET step == count \div 2
             it == first + step
         IN  IF RLess(at(pts, it).x, t)
             THEN LowerBoundFrom(pts, it + 1, count - (step + 1), t)
             ELSE LowerBoundFrom(pts, first, step, t)

lower_bound(pts, t) == LowerBoundFrom(pts, 0, Len(pts), t)

\* Variant: the search result used without the step back.
SearchNodeNoStepBack(pts, time) == lower_bound(pts, time)

\* The segment getValueAtTime interpolates on: the position the search ends
\* at, one step back unless it is begin().
SearchNode(pts, time) ==
    LET it == lower_bound(pts, time)
    IN  IF it # 0 THEN it - 1 ELSE it

Degenerate(pt0, pt1) == RLess(RSub(pt1.x, pt0.x), D(EPS))

\* Lines 106-113: the interpolation on segment curnode. divs lists the
\* denominators of the divisions performed (one per jmap call).
Interpolate(pts, curnode, time) ==
    LET pt0 == getPointSafe(pts, curnode)
        p1 == getPointSafe(pts, curnode + 1)
        pt1 == IF Degenerate(pt0, p1) THEN EnvelopePoint(time, p1.y) ELSE p1
        v0 == pt0.y
        v1 == pt1.y
        deltanorm == jmap(time, pt0.x, pt1.x, D(0), D(1))
    IN  [value |-> jmap(deltanorm, D(0), D(1), v0, v1),
         divs |-> <<RSub(pt1.x, pt0.x), RSub(D(1), D(0))>>]

\* getValueAtTime with what it did: the value returned, the segment used
\* (-2 when it returned without interpolating) and the denominators.
ValueRun(pts, time) ==
    LET flat(v) == [value |-> v, node |-> -2, divs |-> <<>>]
    IN  IF RLess(time, front(pts).x) THEN flat(front(pts).y)
        ELSE IF RGeq(time, back(pts).x) THEN flat(back(pts).y)
        ELSE IF lower_bound(pts, time) = Len(pts) THEN flat(back(pts).y)
        ELSE LET curnode == SearchNode(pts, time)
                 r == Interpolate(pts, curnode, time)
             IN  IF curnode >= 0
                 THEN [value |-> r.value, node |-> curnode, divs |-> r.divs]
                 ELSE flat(D(0))

getValueAtTime(pts, time) == ValueRun(pts, time).value

\* Lines 121-135: the segment applyToBuffer starts from.
StartNode(pts, t0) ==
    IF RGeq(t0, front(pts).x)
    THEN LET lb == lower_bound(pts, t0)
             it == IF lb = Len(pts) THEN lb - 1 ELSE lb
         IN  IF it # 0 THEN it - 1 ELSE it
    ELSE -1

\* Variant: the index moves on only once the sample time has passed the
\* right endpoint.
ScanAtStrict(pts, st, time, t1) ==
    LET advance == RLess(st.pt1.x, time)
        curnode == IF advance THEN st.curnode + 1 ELSE st.curnode
        pt0 == IF advance THEN getPointSafe(pts, curnode) ELSE st.pt0
        p1 == IF advance THEN getPointSafe(pts, curnode + 1) ELSE st.pt1
        v0 == pt0.y
        v1 == p1.y
        pt1 == IF advance /\ Degenerate(pt0, p1) THEN EnvelopePoint(t1, v1) ELSE p1
        deltanorm == jmap(time, pt0.x, pt1.x, D(0), D(1))
    IN  [curnode |-> curnode, pt0 |-> pt0, pt1 |-> pt1,
         time |-> time, advanced |-> advance, right |-> st.pt1.x,
         value |-> jmap(deltanorm, D(0), D(1), v0, v1),
         divs |-> <<RSub(pt1.x, pt0.x), RSub(D(1), D(0))>>]

\* Lines 143-154: a pass of the loop body for a sample at `time`, from the
\* scan state st = [curnode, pt0, pt1]; gives the scan state after it, the
\* sample, and the denominators of the two jmap calls.
ScanAt(pts, st, time, t1) ==
    LET advance == RGeq(time, st.pt1.x)
        curnode == IF advance THEN st.curnode + 1 ELSE st.curnode
        pt0 == IF advance THEN getPointSafe(pts, curnode) ELSE st.pt0
        p1 == IF advance THEN getPointSafe(pts, curnode + 1) ELSE st.pt1
        v0 == pt0.y
        v1 == p1.y
        pt1 == IF advance /\ Degenerate(pt0, p1) THEN EnvelopePoint(t1, v1) ELSE p1
        deltanorm == jmap(time, pt0.x, pt1.x, D(0), D(1))
    IN  [curnode |-> curnode, pt0 |-> pt0, pt1 |-> pt1,
         time |-> time, advanced |-> advance, right |-> st.pt1.x,
         value |-> jmap(deltanorm, D(0), D(1), v0, v1),
         divs |-> <<RSub(pt1.x, pt0.x), RSub(D(1), D(0))>>]

\* Lines 140-154: the pass for sample i, whose time is line 142's jmap.
ScanStep(pts, st, i, bufsize, t0, t1) ==
    LET time == jmap(D(i), D(0), D(bufsize), t0, t1)
    IN  [ScanAt(pts, st, time, t1) EXCEPT !.divs = <<RSub(D(bufsize), D(0))>> \o @]

\* Lines 138-155: the loop, as the sequence of its passes (the pass is bound
\* by a set constructor so that it is evaluated once).
RECURSIVE ScanFrom(_, _, _, _, _, _)
ScanFrom(pts, st, i, bufsize, t0, t1) ==
    IF i >= bufsize THEN <<>>
    ELSE CHOOSE rest \in {<<s>> \o ScanFrom(pts, s, i + 1, bufsize, t0, t1) :
                             s \in {ScanStep(pts, st, i, bufsize, t0, t1)}} : TRUE

Scan(pts, bufsize, t0, t1) ==
    LET curnode == StartNode(pts, t0)
        st == [curnode |-> curnode,
               pt0 |-> getPointSafe(pts, curnode),
               pt1 |-> getPointSafe(pts, curnode + 1)]
    IN  ScanFrom(pts, st, 0, bufsize, t0, t1)

\* Variant: the clamp loop left out.
LimitBufferOff(buf, limitrange) == buf

\* Lines 156-162: the clamp of the written samples.
LimitBuffer(buf, limitrange) ==
    IF RangeIsEmpty(limitrange) = FALSE
    THEN [i \in 1..Len(buf) |-> jlimit(limitrange.lo, limitrange.hi, buf[i])]
    ELSE buf

\* The samples the loop wrote, buf[0..bufsize) before the clamp.
Written(steps) == [i \in 1..Len(steps) |-> steps[i].value]

\* buf[0..bufsize) after applyToBuffer(buf, bufsize, t0, t1, limitrange)
applyToBuffer(pts, bufsize, t0, t1, limitrange) ==
    LimitBuffer(Written(Scan(pts, bufsize, t0, t1)), limitrange)

\* What a pass leaves visible: the segment index, the sample and its time,
\* and the denominators it divided by.
Trace(steps) ==
    [i \in 1..Len(steps) |->
        [curnode |-> steps[i].curnode, advanced |-> steps[i].advanced,
         right |-> steps[i].right, time |-> steps[i].time, value |-> steps[i].value, divs |-> steps[i].divs]]

\* ------------------------------------------------------- state machine
\* m_points is the vector of the Envelope object. last records the most
\* recent call on it: the method, its arguments, the vector as the call found
\* it, and what the call returned; it reads "idle" between calls.
Idle ==
    [op |-> "idle", pre |-> <<>>, list |-> <<>>, index |-> 0, count |-> 0,
     t0 |-> D(0), t1 |-> D(0), range |-> NoRange,
     value |-> D(0), point |-> EnvelopePoint(D(0), D(0)),
     node |-> 0, divs |-> <<>>, buf |-> <<>>, steps |-> <<>>, mem |-> <<>>]

Call(op) == [Idle EXCEPT !.op = op, !.pre = m_points]

\* memo remembers one earlier query (its arguments and what it returned)
\* and whether other queries have run since.
NoMemo == [call |-> Idle, between |-> FALSE]

\* The FilePlayerPlugin of InternalFilters.cpp: m_reader is <<>> for nullptr
\* and <<n>> for a reader of n samples, m_looppoints a Range<int64>, m_cs
\* the owner of the CriticalSection; audio and ui are the positions of the
\* audio thread and of the message thread in their calls.  A load or a
\* store of an int64 member is taken as one step.
player == <<m_reader, m_filepos, m_looppoints, m_cs, audio, ui>>

LoopPoints(s, e) == [start |-> s, end |-> IF e < s THEN s ELSE e]

\* audio records the processBlock call in progress: where it is, the block
\* size, the reader and loop points it ran with, and m_filepos as it found
\* and as it left it.
AudioIdle ==
    [pc |-> "idle", numSamples |-> 0, reader |-> <<>>, loop |-> LoopPoints(0, 0),
     pre |-> 0, post |-> 0]

\* ui records the call of the message thread in progress: for
\* setAudioFileToPlay the reader createReaderFor gave (temp) and the members
\* <<m_reader, m_looppoints, m_filepos>> before and after; for
\* getPlayPositionPercent the members it read and what it returned.
UiIdle ==
    [pc |-> "idle", temp |-> <<>>, pre |-> <<>>, post |-> <<>>,
     reader |-> <<>>, filepos |-> 0, percent |-> D(0)]

FilePlayerPlugin ==
    /\ m_reader = <<>>
    /\ m_filepos = 0
    /\ m_looppoints = LoopPoints(0, 0)
    /\ m_cs = "free"
    /\ audio = AudioIdle
    /\ ui = UiIdle

DTimes == {D(t) : t \in Times}

DVals == {D(v) : v \in Vals}

Init ==
    \E pts \in PointLists(MaxPoints) :
        /\ m_points = construct(pts)
        /\ last = [Idle EXCEPT !.op = "construct", !.list = pts]
        /\ memo = NoMemo
        /\ FilePlayerPlugin

Return ==
    /\ last.op # "idle"
    /\ last' = Idle
    /\ UNCHANGED m_points
    /\ UNCHANGED <<memo, player>>

ClearAllPoints ==
    /\ last.op = "idle"
    /\ m_points' = clearAllPoints(m_points)
    /\ last' = Call("clearAllPoints")
    /\ UNCHANGED <<memo, player>>

AddPoint ==
    /\ last.op = "idle"
    /\ Len(m_points) < MaxPoints
    /\ \E pt \in Points :
        /\ m_points' = addPoint(m_points, pt, FALSE)
        /\ last' = [Call("addPoint") EXCEPT !.list = <<pt>>]
    /\ UNCHANGED <<memo, player>>

AddPoints ==
    /\ last.op = "idle"
    /\ \E list \in PointLists(MaxPoints - Len(m_points)) :
        /\ m_points' = addPoints(m_points, list)
        /\ last' = [Call("addPoints") EXCEPT !.list = list]
    /\ UNCHANGED <<memo, player>>

RemovePoint ==
    /\ last.op = "idle"
    /\ \E index \in -1..MaxPoints :
        /\ m_points' = removePoint(m_points, index)
        /\ last' = [Call("removePoint") EXCEPT !.index = index]
    /\ UNCHANGED <<memo, player>>

RemovePointsInTimeRange ==
    /\ last.op = "idle"
    /\ \E t0 \in DTimes, t1 \in DTimes :
        /\ m_points' = removePointsInTimeRange(m_points, t0, t1)
        /\ last' = [Call("removePointsInTimeRange") EXCEPT !.t0 = t0, !.t1 = t1]
    /\ UNCHANGED <<memo, player>>

RemovePointsConditionally ==
    /\ last.op = "idle"
    /\ \E a \in DVals, b \in DVals \cup {D(MaxVal + 1)} :
        /\ m_points' = removePointsConditionally(m_points, a, b)
        /\ last' = [Call("removePointsConditionally") EXCEPT !.t0 = a, !.t1 = b]
    /\ UNCHANGED <<memo, player>>

SortPoints ==
    /\ last.op = "idle"
    /\ m_points' = sortPoints(m_points)
    /\ last' = Call("sortPoints")
    /\ UNCHANGED <<memo, player>>

InDomain(pts) == \A k \in 1..Len(pts) : pts[k] \in Points

ScaleTimes ==
    /\ last.op = "idle"
    /\ \E sx \in {D(0), <<1, 2>>, D(1), D(2)} :
        /\ InDomain(scaleTimes(m_points, sx))
        /\ m_points' = scaleTimes(m_points, sx)
        /\ last' = [Call("scaleTimes") EXCEPT !.t0 = sx]
    /\ UNCHANGED <<memo, player>>

ScaleAndShiftValues ==
    /\ last.op = "idle"
    /\ \E sy \in {D(-1), D(0), D(1), D(2)}, shifty \in DVals :
        /\ InDomain(scaleAndShiftValues(m_points, sy, shifty))
        /\ m_points' = scaleAndShiftValues(m_points, sy, shifty)
        /\ last' = [Call("scaleAndShiftValues") EXCEPT !.t0 = sy, !.t1 = shifty]
    /\ UNCHANGED <<memo, player>>

\* The queries are const methods; they require a non-empty vector
\* (front() and back() of an empty vector are undefined).
GetPointSafeCall(index) ==
    [Call("getPointSafe") EXCEPT !.index = index,
                                 !.point = getPointSafe(m_points, index)]

GetPointSafe ==
    /\ last.op = "idle"
    /\ m_points # <<>>
    /\ \E index \in -2..(MaxPoints + 1) : last' = GetPointSafeCall(index)
    /\ UNCHANGED m_points
    /\ UNCHANGED <<memo, player>>

\* The query times tried: every whole unit from 0 to the last breakpoint
\* time, which puts queries on breakpoints and strictly inside segments.
QueryTimes == {D(t) : t \in 0..(EPS * MaxSeg)}

GetValueAtTimeCall(time) ==
    LET r == ValueRun(m_points, time)
    IN  [Call("getValueAtTime") EXCEPT !.t0 = time, !.value = r.value,
                                       !.node = r.node, !.divs = r.divs]

GetValueAtTime ==
    /\ last.op = "idle"
    /\ m_points # <<>>
    /\ \E time \in QueryTimes : last' = GetValueAtTimeCall(time)
    /\ UNCHANGED m_points
    /\ UNCHANGED <<memo, player>>

\* The limit ranges tried: none (the default argument, an empty Range), one
\* that is supplied but empty (lo = hi), and two with lo < hi.
Ranges == {NoRange, Range(<<1, 2>>, <<1, 2>>), Range(D(0), <<1, 2>>), Range(<<1, 2>>, D(1))}

\* The ends of the time range tried: the breakpoint times and one time far
\* behind them, so that a sample step can be longer than the whole curve.
FillEnds == DTimes \cup {D(4 * EPS * MaxSeg)}

\* The caller's array as a call finds it: one slot more than the largest
\* bufsize, every slot holding what the caller left there.
Stale == D(-1)

CallerBuffer == [k \in 1..(MaxCount + 1) |-> Stale]

\* Variant: the loops run to i <= bufsize.
StoreBufferOneMore(mem, samples) ==
    [k \in 1..Len(mem) |->
        IF k <= Len(samples) THEN samples[k]
        ELSE IF k = Len(samples) + 1 THEN D(0) ELSE mem[k]]

\* Lines 138 and 158: both loops store to buf[i] for i in 0..bufsize-1.
StoreBuffer(mem, samples) ==
    [k \in 1..Len(mem) |-> IF k <= Len(samples) THEN samples[k] ELSE mem[k]]

\* The record of applyToBuffer(buf, bufsize, t0, t1, limitrange): the loop's
\* passes, buf[0..bufsize) and the caller's whole array after the call.
ApplyToBufferCall(bufsize, t0, t1, limitrange) ==
    CHOOSE r \in
        {[Call("applyToBuffer") EXCEPT
             !.t0 = t0, !.t1 = t1, !.count = bufsize, !.range = limitrange,
             !.node = StartNode(m_points, t0),
             !.steps = Trace(steps),
             !.buf = LimitBuffer(Written(steps), limitrange),
             !.mem = StoreBuffer(CallerBuffer, LimitBuffer(Written(steps), limitrange))] :
         steps \in {Scan(m_points, bufsize, t0, t1)}} : TRUE

ApplyToBuffer ==
    /\ last.op = "idle"
    /\ m_points # <<>>
    /\ \E t0 \in DTimes, t1 \in FillEnds, bufsize \in 0..MaxCount, limitrange \in Ranges :
        /\ RLess(t0, t1)
        /\ last' = ApplyToBufferCall(bufsize, t0, t1, limitrange)
    /\ UNCHANGED m_points
    /\ UNCHANGED <<memo, player>>

Mutate ==
    \/ ClearAllPoints
    \/ AddPoint
    \/ AddPoints
    \/ RemovePoint
    \/ RemovePointsInTimeRange
    \/ RemovePointsConditionally
    \/ SortPoints
    \/ ScaleTimes
    \/ ScaleAndShiftValues

Next ==
    \/ Mutate
    \/ GetPointSafe
    \/ GetValueAtTime
    \/ Return

Spec == Init /\ [][Next]_vars

NextFill ==
    \/ ApplyToBuffer
    \/ Return

InitFill ==
    \E pts \in PointLists(MaxFillPoints) :
        /\ m_points = construct(pts)
        /\ last = [Idle EXCEPT !.op = "construct", !.list = pts]
        /\ memo = NoMemo
        /\ FilePlayerPlugin

SpecFill == InitFill /\ [][NextFill]_vars

\* Queries repeated on a curve nobody modifies.  A first query runs; Keep
\* is its return with the caller remembering the call; Between stands for
\* other queries that run and return before the remembered call is made
\* again by Repeat, with the same arguments.
QueryOps == {"getValueAtTime", "getPointSafe", "applyToBuffer"}

FirstQuery ==
    /\ memo = NoMemo
    /\ (GetValueAtTime \/ GetPointSafe \/ ApplyToBuffer)

Keep ==
    /\ last.op \in QueryOps
    /\ memo = NoMemo
    /\ memo' = [call |-> last, between |-> FALSE]
    /\ last' = Idle
    /\ UNCHANGED <<m_points, player>>

Between ==
    /\ last.op = "idle"
    /\ memo # NoMemo
    /\ memo.between = FALSE
    /\ memo' = [memo EXCEPT !.between = TRUE]
    /\ UNCHANGED <<m_points, last, player>>

Repeat ==
    /\ last.op = "idle"
    /\ memo # NoMemo
    /\ last' = CASE memo.call.op = "getValueAtTime" -> GetValueAtTimeCall(memo.call.t0)
                  [] memo.call.op = "getPointSafe" -> GetPointSafeCall(memo.call.index)
                  [] OTHER -> ApplyToBufferCall(memo.call.count, memo.call.t0,
                                                memo.call.t1, memo.call.range)
    /\ UNCHANGED <<m_points, memo, player>>

NextQuery == FirstQuery \/ Keep \/ Between \/ Repeat \/ Return

\* The curves queried: the k-th point of the constructor's list has the
\* value k modulo MaxVal + 1, any time.
InitQuery ==
    \E pts \in {p \in PointLists(MaxFillPoints) :
                    \A k \in 1..Len(p) : p[k].y = D(k % (MaxVal + 1))} :
        /\ m_points = construct(pts)
        /\ last = [Idle EXCEPT !.op = "construct", !.list = pts]
        /\ memo = NoMemo
        /\ FilePlayerPlugin

SpecQuery == InitQuery /\ [][NextQuery]_vars

\* Insertion in a batch.  AddPointNoSort is addPoint(pt, true); last then
\* records the run of such calls: the vector as the first of them found it
\* and the points appended since.  SortBatch is the sortPoints() that ends
\* the run.
AddPointNoSort ==
    /\ last.op \in {"idle", "addPointNoSort"}
    /\ Len(m_points) < MaxPoints
    /\ \E pt \in Points :
        /\ m_points' = addPoint(m_points, pt, TRUE)
        /\ last' = IF last.op = "idle"
                   THEN [Call("addPointNoSort") EXCEPT !.list = <<pt>>]
                   ELSE [last EXCEPT !.list = Append(@, pt)]
    /\ UNCHANGED <<memo, player>>

SortBatch ==
    /\ last.op = "addPointNoSort"
    /\ m_points' = sortPoints(m_points)
    /\ last' = [last EXCEPT !.op = "sortBatch"]
    /\ UNCHANGED <<memo, player>>

NextBatch == AddPoints \/ AddPointNoSort \/ SortBatch \/ Return

SpecBatch == Init /\ [][NextBatch]_vars

\* ------------------------------------------------------ the file player
\* Files have 0..MaxLength samples, blocks 0..MaxBlock samples.
\* processBlock runs on the audio thread, in three steps: line 442 takes
\* m_cs; lines 443-448 read a block and add its size to m_filepos; lines
\* 449-452 wrap m_filepos and release m_cs.
ProcessBlockEnter ==
    /\ audio.pc = "idle"
    /\ m_cs = "free"
    /\ m_cs' = "audio"
    /\ \E numSamples \in 0..MaxBlock :
        audio' = [AudioIdle EXCEPT !.pc = "locked", !.numSamples = numSamples,
                                   !.reader = m_reader, !.loop = m_looppoints,
                                   !.pre = m_filepos]
    /\ UNCHANGED <<m_reader, m_filepos, m_looppoints, ui>>
    /\ UNCHANGED <<m_points, last, memo>>

ProcessBlockAdvance ==
    /\ audio.pc = "locked"
    /\ IF m_reader # <<>>
       THEN /\ m_filepos' = m_filepos + audio.numSamples
            /\ audio' = [audio EXCEPT !.pc = "added"]
            /\ UNCHANGED m_cs
       ELSE /\ audio' = [audio EXCEPT !.pc = "done", !.post = m_filepos]
            /\ m_cs' = "free"
            /\ UNCHANGED m_filepos
    /\ UNCHANGED <<m_reader, m_looppoints, ui>>
    /\ UNCHANGED <<m_points, last, memo>>

ProcessBlockWrap ==
    /\ audio.pc = "added"
    /\ m_filepos' = IF m_filepos >= m_looppoints.end THEN m_looppoints.start ELSE m_filepos
    /\ audio' = [audio EXCEPT !.pc = "done", !.post = m_filepos']
    /\ m_cs' = "free"
    /\ UNCHANGED <<m_reader, m_looppoints, ui>>
    /\ UNCHANGED <<m_points, last, memo>>

ProcessBlockReturn ==
    /\ audio.pc = "done"
    /\ audio' = AudioIdle
    /\ UNCHANGED <<m_reader, m_filepos, m_looppoints, m_cs, ui>>
    /\ UNCHANGED <<m_points, last, memo>>

\* setAudioFileToPlay runs on the message thread: lines 403-404 take m_cs
\* and open the file (temp is <<>> when createReaderFor fails); lines
\* 405-415 store the members and release m_cs.
Members == <<m_reader, m_looppoints, m_filepos>>

SetAudioFileToPlayEnter ==
    /\ ui.pc = "idle"
    /\ m_cs = "free"
    /\ m_cs' = "ui"
    /\ \E temp \in {<<>>} \cup {<<n>> : n \in 0..MaxLength} :
        ui' = [UiIdle EXCEPT !.pc = "setting", !.temp = temp, !.pre = Members]
    /\ UNCHANGED <<m_reader, m_filepos, m_looppoints, audio>>
    /\ UNCHANGED <<m_points, last, memo>>

SetAudioFileToPlayStore ==
    /\ ui.pc = "setting"
    /\ IF ui.temp # <<>>
       THEN /\ m_reader' = ui.temp
            /\ m_looppoints' = LoopPoints(0, ui.temp[1])
            /\ m_filepos' = m_looppoints'.start
       ELSE UNCHANGED <<m_reader, m_looppoints, m_filepos>>
    /\ ui' = [ui EXCEPT !.pc = "set", !.post = Members']
    /\ m_cs' = "free"
    /\ UNCHANGED audio
    /\ UNCHANGED <<m_points, last, memo>>

\* getPlayPositionPercent runs on the message thread (the editor's paint,
\* line 511) and takes no lock: it reads m_reader and m_filepos as they are
\* in memory, whatever processBlock is doing.
getPlayPositionPercent(reader, filepos) ==
    IF reader = <<>> THEN D(0)
    ELSE RMul(RDiv(D(1), D(reader[1])), D(filepos))

GetPlayPositionPercent ==
    /\ ui.pc = "idle"
    /\ ui' = [UiIdle EXCEPT !.pc = "got", !.reader = m_reader, !.filepos = m_filepos,
                            !.percent = getPlayPositionPercent(m_reader, m_filepos)]
    /\ UNCHANGED <<m_reader, m_filepos, m_looppoints, m_cs, audio>>
    /\ UNCHANGED <<m_points, last, memo>>

UiReturn ==
    /\ ui.pc \in {"set", "got"}
    /\ ui' = UiIdle
    /\ UNCHANGED <<m_reader, m_filepos, m_looppoints, m_cs, audio>>
    /\ UNCHANGED <<m_points, last, memo>>

NextPlayer ==
    \/ ProcessBlockEnter
    \/ ProcessBlockAdvance
    \/ ProcessBlockWrap
    \/ ProcessBlockReturn
    \/ SetAudioFileToPlayEnter
    \/ SetAudioFileToPlayStore
    \/ GetPlayPositionPercent
    \/ UiReturn

InitPlayer ==
    /\ m_points = <<>>
    /\ last = Idle
    /\ memo = NoMemo
    /\ FilePlayerPlugin

SpecPlayer == InitPlayer /\ [][NextPlayer]_vars

\* ---------------------------------------------------------- properties
Sorted(pts) == \A k \in 1..(Len(pts) - 1) : RLeq(pts[k].x, pts[k + 1].x)

\* Adjacent times at least 1e-5 apart.
AdjacentApart(pts) ==
    \A k \in 1..(Len(pts) - 1) : RGeq(RSub(pts[k + 1].x, pts[k].x), D(EPS))

\* Some adjacent pair closer than 1e-5.
HasDegenerate(pts) ==
    \E k \in 1..(Len(pts) - 1) : RLess(RSub(pts[k + 1].x, pts[k].x), D(EPS))

\* The j-th smallest member of a set of positions.
NthOf(S, j) == CHOOSE k \in S : Cardinality({m \in S : m < k}) = j - 1

\* The points of pts at time t, in the order pts holds them.
AtTime(pts, t) == SelectSeq(pts, LAMBDA e : e.x = t)

\* C1: after construction and after every mutator (addPoint with sorting,
\* addPoints, removePoint, removePointsInTimeRange, removePointsConditionally,
\* clearAllPoints, scaleAndShiftValues, scaleTimes by a factor >= 0) the
\* stored points are in ascending order of time.
C1_SortedAlways == Sorted(m_points)

\* C1 witness: an addPoint whose sort moved the new point in front of a
\* stored one.
C1_Witness ==
    /\ last.op = "addPoint"
    /\ Len(m_points) = 3
    /\ m_points # Append(last.pre, last.list[1])

\* C3, on curves whose first and last times differ (where its two halves ask
\* for one value each): getValueAtTime(t) is the first point's value for
\* every t <= the first time, and the last point's value for every
\* t >= the last time.
C3_FlatOutside ==
    last.op = "getValueAtTime" =>
        /\ (RLeq(last.t0, front(m_points).x)
              /\ RLess(front(m_points).x, back(m_points).x))
            => last.value = front(m_points).y
        /\ RGeq(last.t0, back(m_points).x) => last.value = back(m_points).y

\* C4: on a curve whose adjacent times are at least 1e-5 apart, for a time t
\* with time[i] <= t < time[i+1], getValueAtTime(t) is
\* value[i] + (value[i+1] - value[i]) * (t - time[i]) / (time[i+1] - time[i]),
\* and the segment the search chose contains t.
C4_Interpolates ==
    (last.op = "getValueAtTime" /\ AdjacentApart(m_points)) =>
        \A i \in 1..(Len(m_points) - 1) :
            (RLeq(m_points[i].x, last.t0) /\ RLess(last.t0, m_points[i + 1].x)) =>
                /\ last.value =
                     RAdd(m_points[i].y,
                          RDiv(RMul(RSub(m_points[i + 1].y, m_points[i].y),
                                    RSub(last.t0, m_points[i].x)),
                               RSub(m_points[i + 1].x, m_points[i].x)))
                /\ last.node >= 0
                /\ last.node + 1 < Len(m_points)
                /\ RLeq(at(m_points, last.node).x, last.t0)
                /\ RLeq(last.t0, at(m_points, last.node + 1).x)

\* C4 witness: a query strictly inside the second segment of a three-point
\* curve, answered with a value that is neither endpoint's.
C4_Witness ==
    /\ last.op = "getValueAtTime"
    /\ AdjacentApart(m_points)
    /\ Len(m_points) = 3
    /\ RLess(m_points[2].x, last.t0)
    /\ RLess(last.t0, m_points[3].x)
    /\ last.node = 1
    /\ last.value \notin {m_points[2].y, m_points[3].y}

\* The time of sample i (from 0) of count samples over [t0, t1).
SampleTime(t0, t1, i, count) == RAdd(t0, RDiv(RMul(RSub(t1, t0), D(i)), D(count)))

\* C2, on curves whose adjacent times are at least 1e-5 apart (where
\* getValueAtTime interpolates as C4 says): applyToBuffer without a limit
\* range writes into buf[i] the value getValueAtTime returns at
\* t0 + (t1 - t0) * i / count, for every sample.
C2_ScanAgreesWithSearch ==
    (last.op = "applyToBuffer" /\ last.range = NoRange /\ AdjacentApart(m_points)) =>
        /\ Len(last.buf) = last.count
        /\ \A i \in 0..(last.count - 1) :
             last.buf[i + 1] =
                 getValueAtTime(m_points, SampleTime(last.t0, last.t1, i, last.count))

\* C5 as amended: with a limit range lo < hi every sample written lies in
\* [lo, hi]; with the limit range omitted, or supplied with lo = hi, the
\* samples are the values the loop computed, unclamped.
C5_ClampWhenNonEmpty ==
    last.op = "applyToBuffer" =>
        /\ Len(last.buf) = last.count
        /\ RLess(last.range.lo, last.range.hi) =>
             \A i \in 1..last.count :
                 RLeq(last.range.lo, last.buf[i]) /\ RLeq(last.buf[i], last.range.hi)
        /\ (last.range = NoRange \/ last.range.lo = last.range.hi) =>
             \A i \in 1..last.count : last.buf[i] = last.steps[i].value

\* C5 as stated: with any supplied limit range lo <= hi every sample written
\* lies in [lo, hi].
C5_ClampWhenSupplied ==
    (last.op = "applyToBuffer" /\ last.range # NoRange
        /\ RLeq(last.range.lo, last.range.hi)) =>
        \A i \in 1..last.count :
            RLeq(last.range.lo, last.buf[i]) /\ RLeq(last.buf[i], last.range.hi)

\* C5 witness: a limit range lo < hi that changed a sample the loop wrote.
C5_Witness ==
    /\ last.op = "applyToBuffer"
    /\ RLess(last.range.lo, last.range.hi)
    /\ \E i \in 1..last.count :
         /\ last.buf[i] # last.steps[i].value
         /\ last.buf[i] \in {last.range.lo, last.range.hi}

\* C6: on a curve with two adjacent points closer than 1e-5, neither
\* getValueAtTime nor applyToBuffer divides by zero, and neither produces a
\* NaN or an infinite value.
C6_NoZeroDivision ==
    HasDegenerate(m_points) =>
        /\ last.op = "getValueAtTime" =>
             /\ IsFinite(last.value)
             /\ \A k \in 1..Len(last.divs) : last.divs[k] # D(0)
        /\ last.op = "applyToBuffer" =>
             \A i \in 1..Len(last.steps) :
                 /\ IsFinite(last.steps[i].value)
                 /\ IsFinite(last.buf[i])
                 /\ \A k \in 1..Len(last.steps[i].divs) : last.steps[i].divs[k] # D(0)

\* C7: removePointsInTimeRange(t0, t1) leaves exactly the points whose time
\* is not in [t0, t1], each unmodified and in its previous relative order
\* (the j-th point left is the j-th point of the old sequence outside the
\* range); nothing is removed when t0 > t1.
C7_RemovesClosedRange ==
    last.op = "removePointsInTimeRange" =>
        LET kept == {k \in 1..Len(last.pre) :
                        ~(RLeq(last.t0, last.pre[k].x) /\ RLeq(last.pre[k].x, last.t1))}
        IN  /\ Len(m_points) = Cardinality(kept)
            /\ \A j \in 1..Len(m_points) : m_points[j] = last.pre[NthOf(kept, j)]
            /\ RLess(last.t1, last.t0) => m_points = last.pre

\* C7 witness: a removal that took one of three points, one whose time is
\* the upper bound t1 itself, with t0 < t1.
C7_Witness ==
    /\ last.op = "removePointsInTimeRange"
    /\ RLess(last.t0, last.t1)
    /\ Len(last.pre) = 3
    /\ Len(m_points) = 2
    /\ \E k \in 1..3 : last.pre[k].x = last.t1

\* C8: removePoint(index) with index < 0 or index >= size leaves the
\* sequence as it was; with 0 <= index < size it removes the point at that
\* position and nothing else, the others keeping their order.
C8_RemovePoint ==
    last.op = "removePoint" =>
        IF last.index < 0 \/ last.index >= Len(last.pre)
        THEN m_points = last.pre
        ELSE /\ Len(m_points) = Len(last.pre) - 1
             /\ \A k \in 1..Len(m_points) :
                  m_points[k] = IF k <= last.index THEN last.pre[k] ELSE last.pre[k + 1]

\* C8 witness: the first of three points removed.
C8_Witness ==
    /\ last.op = "removePoint"
    /\ last.index = 0
    /\ Len(last.pre) = 3
    /\ Len(m_points) = 2

\* C9: the sort is stable. After construct, addPoint and addPoints the
\* points of any one time are in the order of insertion (the order of the
\* stored points followed by the new ones), so a point added at the time of
\* stored points lies behind them; and sortPoints on a sorted sequence
\* changes nothing.
C9_StableSort ==
    /\ last.op \in {"construct", "addPoint", "addPoints"} =>
         /\ Len(m_points) = Len(last.pre) + Len(last.list)
         /\ \A t \in DTimes : AtTime(m_points, t) = AtTime(last.pre \o last.list, t)
    /\ last.op = "sortPoints" => m_points = last.pre

\* C9 witness: a point added at the time of a stored point with another
\* value, and placed right behind it, in front of a later point.
C9_Witness ==
    /\ last.op = "addPoint"
    /\ Len(m_points) = 3
    /\ m_points[2] = last.list[1]
    /\ m_points[1].x = last.list[1].x
    /\ m_points[1].y # last.list[1].y
    /\ RLess(m_points[2].x, m_points[3].x)

\* C10: on a non-empty curve getPointSafe(index) is the stored point for
\* 0 <= index < size, (first time - 0.1, first value) for index < 0 and
\* (last time, last value) for index >= size, and the curve is unchanged.
\* 0.1 is 10000 times the 0.00001 of the degenerate-segment test.
C10_PointSafe ==
    last.op = "getPointSafe" =>
        /\ m_points = last.pre
        /\ last.point =
             IF last.index < 0
             THEN EnvelopePoint(RSub(m_points[1].x, D(10000 * EPS)), m_points[1].y)
             ELSE IF last.index >= Len(m_points)
             THEN m_points[Len(m_points)]
             ELSE m_points[last.index + 1]

\* C10 witness: the synthetic point in front of a curve whose first and last
\* points differ.
C10_Witness ==
    /\ last.op = "getPointSafe"
    /\ last.index < 0
    /\ m_points[1] # m_points[Len(m_points)]
    /\ last.point.y = m_points[1].y

\* The segment index as pass i of the recorded call found it.
IndexBefore(i) == IF i = 1 THEN last.node ELSE last.steps[i - 1].curnode

\* C11: within one applyToBuffer call on a non-empty sorted curve with
\* t0 < t1, the segment index is located once before the loop (-1 when t0
\* is before the first point), and on every pass it is one more than before
\* when the sample time is >= the time of the current right endpoint and
\* the same as before otherwise; so it never decreases, and it stays in
\* -1..size for the whole call.
C11_SegmentIndex ==
    (last.op = "applyToBuffer" /\ Sorted(last.pre) /\ RLess(last.t0, last.t1)) =>
        /\ last.node \in -1..(Len(last.pre) - 1)
        /\ (last.node = -1) = RLess(last.t0, front(last.pre).x)
        /\ \A i \in 1..Len(last.steps) :
            /\ last.steps[i].curnode =
                   IF RGeq(last.steps[i].time, last.steps[i].right)
                   THEN IndexBefore(i) + 1
                   ELSE IndexBefore(i)
            /\ last.steps[i].curnode >= IndexBefore(i)
            /\ last.steps[i].curnode \in -1..Len(last.pre)

\* a call that starts at -1 before the first point, leaves the index alone
\* on two passes and moves it on another, whose sample is exactly on the
\* right endpoint
C11_Witness ==
    /\ last.op = "applyToBuffer"
    /\ Sorted(last.pre)
    /\ last.node = -1
    /\ Len(last.steps) = 3
    /\ last.steps[1].curnode = -1
    /\ last.steps[2].curnode = 0
    /\ last.steps[2].time = last.steps[2].right
    /\ last.steps[3].curnode = 0

\* Two records of the same method with the same arguments.
SameCall(a, b) ==
    /\ a.op = b.op
    /\ a.index = b.index
    /\ a.count = b.count
    /\ a.t0 = b.t0
    /\ a.t1 = b.t1
    /\ a.range = b.range

RECURSIVE AddEach(_, _, _)
AddEach(pts, list, nosort) ==
    IF list = <<>> THEN pts
    ELSE AddEach(addPoint(pts, Head(list), nosort), Tail(list), nosort)

\* C13: from a sorted curve and for every list p1..pk, addPoints([p1..pk]),
\* addPoint(p1), ..., addPoint(pk) with nosort = false, and
\* addPoint(p1, true), ..., addPoint(pk, true) followed by sortPoints() give
\* the same vector, the same points in the same order, ties included; and
\* between the appends of the third procedure the points stored before keep
\* their positions, each new point being the last.
C13_BatchedInsertion ==
    /\ (last.op = "addPoints" /\ Sorted(last.pre)) =>
        /\ m_points = AddEach(last.pre, last.list, FALSE)
        /\ m_points = sortPoints(AddEach(last.pre, last.list, TRUE))
    /\ (last.op = "addPointNoSort" /\ Sorted(last.pre)) =>
        /\ m_points = last.pre \o last.list
        /\ m_points = AddEach(last.pre, last.list, TRUE)
    /\ (last.op = "sortBatch" /\ Sorted(last.pre)) =>
        /\ m_points = addPoints(last.pre, last.list)
        /\ m_points = AddEach(last.pre, last.list, FALSE)

\* two points appended unsorted to a stored point, all three at one time,
\* the second of them the largest, then sorted: the order is the order of
\* arrival
C13_Witness ==
    /\ last.op = "sortBatch"
    /\ Len(last.pre) = 1
    /\ Len(last.list) = 2
    /\ last.list[1].x = last.pre[1].x
    /\ RLess(last.list[2].x, last.list[1].x)
    /\ last.list[1].y # last.pre[1].y
    /\ m_points = <<last.list[2], last.pre[1], last.list[1]>>

\* The three parts of the file player's property.
ReadInLoop ==
    (ui.pc = "got" /\ ui.reader # <<>> /\ ui.reader[1] > 0) =>
        /\ m_looppoints.start <= ui.filepos
        /\ ui.filepos < m_looppoints.end
        /\ RLeq(D(0), ui.percent)
        /\ RLess(ui.percent, D(1))

BlockAdvances ==
    (audio.pc = "done" /\ audio.reader # <<>>) =>
        audio.post = IF audio.pre + audio.numSamples >= audio.loop.end
                     THEN audio.loop.start
                     ELSE audio.pre + audio.numSamples

FailedLoadKeeps ==
    (ui.pc = "set" /\ ui.temp = <<>>) => ui.post = ui.pre

\* C14: in FilePlayerPlugin, whatever the interleaving of processBlock on
\* the audio thread with setAudioFileToPlay and getPlayPositionPercent on
\* the message thread, when a reader of length > 0 is loaded the position
\* getPlayPositionPercent reads is in [loopStart, loopEnd) and the fraction
\* it returns in [0, 1); processBlock adds the block size to the position
\* and wraps it to loopStart when it reaches or passes loopEnd; and a
\* setAudioFileToPlay that fails leaves reader, loop points and position
\* as they were.
C14_PlayPosition == ReadInLoop /\ BlockAdvances /\ FailedLoadKeeps

=============================================================================
